---------------------------- MODULE Spec2Model ----------------------------
(***************************************************************************)
(* A model of GethDBReader's freezer table reader                          *)
(* (src/GethDBReader/FreezerTable.py) and of the two layers above it       *)
(* (GethFreezerDB.py, GethDB.py).                                          *)
(*                                                                         *)
(* The disk holds one table: an index file of 6-byte records and numbered  *)
(* data files.  Files are sequences of bytes (0..255).  The table object   *)
(* is the record `self`, with the fields FreezerTable.__init__ gives it.   *)
(* Callers are threads; each call is cut at the accesses to the shared     *)
(* file objects, so that the interleavings of concurrent calls are the     *)
(* ones CPython can produce.                                               *)
(***************************************************************************)
EXTENDS Integers, Sequences, FiniteSets, TLC

VARIABLES
    indexFile,   \* bytes of <name>.ridx / <name>.cidx on disk
    dataFiles,   \* file number -> bytes of <name>.NNNN.rdat / .cdat (existing files)
    written,     \* ghost: the raw item contents the external writer stored
    table,       \* "absent" | "published" | "failed": what NewCustomTable gave the caller
    openError,   \* the exception the last NewCustomTable raised ("" when none)
    self,        \* the FreezerTable object's fields
    lock,        \* self.lock: [readers |-> set of threads, writer |-> set of threads]
    pc,          \* per thread: its position in the call it is executing
    frame,       \* per thread: the call's name, argument and local variables
    ret,         \* per thread: what its last call returned or raised
    atOpen       \* ghost: the disk as the last NewCustomTable found it

vars == <<indexFile, dataFiles, written, table, openError, self, lock, pc, frame, ret, atOpen>>

disk == <<indexFile, dataFiles, written>>

-----------------------------------------------------------------------------
(* Bounds of the model *)

\* most items the writer stored in the table
MaxItems == 2
\* longest raw item content, in bytes
MaxItemLen == 2
\* largest number of the first (tail) data file of a pruned table
MaxTailId == 1
\* most items pruned from the front of the table
MaxItemOffset == 1
\* most bytes a crash cut from the end of the last data file
MaxHeadLoss == 1
\* caller threads
NThreads == 2

Threads == 1 .. NThreads

-----------------------------------------------------------------------------
(* Python values *)

None == [none |-> TRUE]

Returned(v) == [exc |-> "", msg |-> "", value |-> v]

Raised(e, m) == [exc |-> e, msg |-> m, value |-> <<>>]

NoResult == [exc |-> "", msg |-> "no call yet", value |-> <<>>]

Min(a, b) == IF a < b THEN a ELSE b

\* b[lo:hi] of Python, on a sequence indexed from 1
Slice(b, lo, hi) == SubSeq(b, lo + 1, Min(hi, Len(b)))

RECURSIVE FromBytesBig(_)
\* int.from_bytes(b, byteorder='big')
FromBytesBig(b) ==
    IF Len(b) = 0 THEN 0
    ELSE 256 * FromBytesBig(SubSeq(b, 1, Len(b) - 1)) + b[Len(b)]

RECURSIVE ToBytesBig(_, _)
\* n.to_bytes(len, byteorder='big'), for n that fits
ToBytesBig(n, len) ==
    IF len = 0 THEN <<>>
    ELSE Append(ToBytesBig(n \div 256, len - 1), n % 256)

RECURSIVE Zeros(_)
\* bytearray(n)
Zeros(n) == IF n = 0 THEN <<>> ELSE Append(Zeros(n - 1), 0)

-----------------------------------------------------------------------------
(* IndexEntry *)

INDEX_ENTRY_SIZE == 6

\* IndexEntry.UnmarshalBinary
UnmarshalBinary(b) ==
    [filenum |-> FromBytesBig(Slice(b, 0, 2)),
     offset  |-> FromBytesBig(Slice(b, 2, 6))]

\* IndexEntry.MarshallBinary
MarshallBinary(e) == ToBytesBig(e.filenum, 2) \o ToBytesBig(e.offset, 4)


-----------------------------------------------------------------------------
(* Snappy block format: snappy.uncompress, and the encoder the writer used *)

RECURSIVE FromBytesLittle(_)
FromBytesLittle(b) ==
    IF Len(b) = 0 THEN 0 ELSE b[1] + 256 * FromBytesLittle(Tail(b))

RECURSIVE ReadVarint(_, _, _, _)
\* the preamble: the uncompressed length, base 128, low group first
ReadVarint(b, pos, mult, acc) ==
    IF pos > Len(b) \/ pos > 5 THEN [ok |-> FALSE, value |-> 0, next |-> pos]
    ELSE IF b[pos] < 128 THEN [ok |-> TRUE, value |-> acc + mult * b[pos], next |-> pos + 1]
    ELSE ReadVarint(b, pos + 1, mult * 128, acc + mult * (b[pos] - 128))

RECURSIVE CopyBack(_, _, _)
\* a copy element: len bytes from offset bytes back in the output, byte by byte
CopyBack(out, offset, len) ==
    IF len = 0 THEN out
    ELSE CopyBack(Append(out, out[Len(out) - offset + 1]), offset, len - 1)

SnappyFailed == [ok |-> FALSE, out |-> <<>>]

RECURSIVE Elements(_, _, _, _)
\* the elements after the preamble: literals (tag % 4 = 0) and copies
Elements(b, pos, out, n) ==
    IF pos > Len(b) THEN (IF Len(out) = n THEN [ok |-> TRUE, out |-> out] ELSE SnappyFailed)
    ELSE
    LET tag == b[pos]
        hi  == tag \div 4
    IN  CASE tag % 4 = 0 ->
              LET extra == IF hi < 60 THEN 0 ELSE hi - 59
              IN  IF pos + extra > Len(b) THEN SnappyFailed
                  ELSE LET len   == IF hi < 60 THEN hi + 1
                                    ELSE FromBytesLittle(SubSeq(b, pos + 1, pos + extra)) + 1
                           start == pos + 1 + extra
                       IN  IF start + len - 1 > Len(b) \/ Len(out) + len > n THEN SnappyFailed
                           ELSE Elements(b, start + len,
                                         out \o SubSeq(b, start, start + len - 1), n)
          [] OTHER ->
              LET width == CASE tag % 4 = 1 -> 1 [] tag % 4 = 2 -> 2 [] OTHER -> 4
              IN  IF pos + width > Len(b) THEN SnappyFailed
                  ELSE LET len    == IF tag % 4 = 1 THEN 4 + (hi % 8) ELSE hi + 1
                           low    == FromBytesLittle(SubSeq(b, pos + 1, pos + width))
                           offset == IF tag % 4 = 1 THEN (tag \div 32) * 256 + low ELSE low
                       IN  IF offset = 0 \/ offset > Len(out) \/ Len(out) + len > n
                           THEN SnappyFailed
                           ELSE Elements(b, pos + 1 + width, CopyBack(out, offset, len), n)

\* snappy.uncompress(blob): [ok, out]; not ok is snappy.UncompressError
Uncompress(blob) ==
    LET pre == ReadVarint(blob, 1, 1, 0)
    IN  IF ~pre.ok THEN SnappyFailed ELSE Elements(blob, pre.next, <<>>, pre.value)

\* What the writer's encoder emits for an input shorter than 17 bytes: the
\* length and one literal element.
SnappyEncode(c) ==
    IF Len(c) = 0 THEN <<0>> ELSE <<Len(c), (Len(c) - 1) * 4>> \o c

-----------------------------------------------------------------------------
(* The table on disk, as the external writer laid it out *)

\* the raw content of the i-th stored item: len bytes, distinct per item and place
ItemContent(i, len) == [j \in 1 .. len |-> 16 * i + j]

\* one stored item's bytes in a data file
Blob(noCompression, c) == IF noCompression THEN c ELSE SnappyEncode(c)

RECURSIVE WriteItems(_, _, _, _, _, _, _)
\* Appends blobs[i..]: an item goes to the head file, or, where rot says the head
\* file is full, to the start of the next file; its index record is the file
\* number and the offset of its end.
WriteItems(blobs, rot, i, fnum, off, entries, files) ==
    IF i > Len(blobs) THEN [entries |-> entries, files |-> files]
    ELSE LET rotate == i > 1 /\ rot[i]
             num    == IF rotate THEN fnum + 1 ELSE fnum
             base   == IF rotate THEN 0 ELSE off
             old    == IF num \in DOMAIN files THEN files[num] ELSE <<>>
             data   == [n \in DOMAIN files \cup {num} |->
                          IF n = num THEN old \o blobs[i] ELSE files[n]]
         IN  WriteItems(blobs, rot, i + 1, num, base + Len(blobs[i]),
                        Append(entries, [filenum |-> num, offset |-> base + Len(blobs[i])]),
                        data)

RECURSIVE Concat(_)
Concat(ss) == IF Len(ss) = 0 THEN <<>> ELSE Head(ss) \o Concat(Tail(ss))

\* A table shape: compression, the pruned prefix (tailId, itemOffset), the item
\* lengths (the items of a generated table are equally long, as block hashes
\* are) and where the writer rotated to a new data file.
Shapes ==
    { [noCompression |-> c, tailId |-> tl, itemOffset |-> io,
       lens |-> [i \in DOMAIN r |-> len], rot |-> r] :
        c \in BOOLEAN, tl \in 0 .. MaxTailId, io \in 0 .. MaxItemOffset,
        len \in 1 .. MaxItemLen,
        r \in UNION { [1 .. n -> BOOLEAN] : n \in 0 .. MaxItems } }

WellFormed(sh) ==
    /\ sh.tailId > 0 => sh.itemOffset > 0
    /\ \A i \in DOMAIN sh.rot : i = 1 => ~sh.rot[i]

\* The scenario of the specification: three items of 5, 7 and 8 bytes in one
\* uncompressed file, index records (0,0) (0,5) (0,12) (0,20).
ScenarioShape ==
    [noCompression |-> TRUE, tailId |-> 0, itemOffset |-> 0,
     lens |-> <<5, 7, 8>>, rot |-> <<FALSE, FALSE, FALSE>>]

RawItems(sh) == [i \in DOMAIN sh.lens |-> ItemContent(i, sh.lens[i])]

\* The undamaged table of a shape: its index bytes and data files.
Layout(sh) ==
    LET blobs == [i \in DOMAIN sh.lens |-> Blob(sh.noCompression, RawItems(sh)[i])]
        w     == WriteItems(blobs, sh.rot, 1, sh.tailId, 0,
                            <<[filenum |-> sh.tailId, offset |-> sh.itemOffset]>>,
                            (sh.tailId :> <<>>))
    IN  [index |-> Concat([k \in DOMAIN w.entries |-> MarshallBinary(w.entries[k])]),
         files |-> w.files,
         last  |-> w.entries[Len(w.entries)].filenum]

\* FreezerTable.__init__ has not run: there is no table object.
NoObject ==
    [noCompression |-> None, maxFileSize |-> None, items |-> None, head |-> None,
     files |-> <<>>, headId |-> None, tailId |-> None, index |-> None,
     itemOffset |-> None, headBytes |-> None]

FreeLock == [readers |-> {}, writer |-> {}]

\* a thread's frame outside a call: no operation, the locals cleared
Idle ==
    [op |-> "", item |-> 0, endIdx |-> [filenum |-> 0, offset |-> 0],
     startOffset |-> 0, endOffset |-> 0, filenum |-> 0, blob |-> <<>>]

\* No table object yet, and on disk the table of shape sh with its index cut to
\* `keep` bytes and `loss` bytes missing from the end of its last data file.
InitWith(sh, keep, loss) ==
      LET lay == Layout(sh) IN
        /\ indexFile = SubSeq(lay.index, 1, keep)
        /\ dataFiles = [lay.files EXCEPT ![lay.last] = SubSeq(@, 1, Len(@) - loss)]
        /\ written = [noCompression |-> sh.noCompression, raw |-> RawItems(sh)]
        /\ table = "absent"
        /\ openError = ""
        /\ self = NoObject
        /\ lock = FreeLock
        /\ pc = [t \in Threads |-> "idle"]
        /\ frame = [t \in Threads |-> Idle]
        /\ ret = [t \in Threads |-> NoResult]
        /\ atOpen = [index |-> <<>>, data |-> <<>>]

\* A table as a crash may have left it: a torn index record, whole index
\* records lost, bytes lost from the last data file.
Init ==
    \E sh \in { s \in Shapes : WellFormed(s) } \cup {ScenarioShape} :
      \E keep \in 0 .. Len(Layout(sh).index),
         loss \in 0 .. Min(MaxHeadLoss, Len(Layout(sh).files[Layout(sh).last])) :
        InitWith(sh, keep, loss)

\* A table the writer closed in good order.
InitClean ==
    \E sh \in { s \in Shapes : WellFormed(s) } :
        InitWith(sh, Len(Layout(sh).index), 0)

-----------------------------------------------------------------------------
(* File objects and FreezerTable's file helpers *)

\* file.read(n) at position pos of a file with this content, n >= 0
Read(content, pos, n) == SubSeq(content, pos + 1, Min(pos + n, Len(content)))

\* OpenFreezerFileForAppend: creates a missing file; the handle is at the end
OpenFreezerFileForAppend(data, num) ==
    LET made == IF num \in DOMAIN data THEN data ELSE data @@ (num :> <<>>)
    IN  [exc |-> "", data |-> made, file |-> [mode |-> "a+b", pos |-> Len(made[num])]]

\* OpenFreezerFileForReadOnly: open(filename, 'rb')
OpenFreezerFileForReadOnly(data, num) ==
    IF num \in DOMAIN data
    THEN [exc |-> "", data |-> data, file |-> [mode |-> "rb", pos |-> 0]]
    ELSE [exc |-> "FileNotFoundError", data |-> data, file |-> None]

\* FreezerTable.OpenFile(num, opener): the cached handle, or a new one
OpenFile(files, data, num, opener) ==
    IF num \in DOMAIN files THEN [exc |-> "", data |-> data, files |-> files]
    ELSE LET o == IF opener = "a+b" THEN OpenFreezerFileForAppend(data, num)
                  ELSE OpenFreezerFileForReadOnly(data, num)
         IN  [exc |-> o.exc, data |-> o.data,
              files |-> IF o.exc = "" THEN files @@ (num :> o.file) ELSE files]

\* FreezerTable.ReleaseFilesAfter(num, False): closes and forgets the higher files
ReleaseFilesAfter(files, num) == [n \in { m \in DOMAIN files : ~(m > num) } |-> files[n]]

\* A TruncateFreezerFile that is defined and returns without truncating
\* anything (not the module's).
TruncateDoingNothing(content, size) == [exc |-> "", content |-> content]

\* TruncateFreezerFile(file, size): the module defines no such name, so the
\* call raises NameError before anything is truncated.
TruncateFreezerFile(content, size) == [exc |-> "NameError", content |-> content]

RECURSIVE PreopenFrom(_, _, _, _)
\* Preopen's loop: for i in range(i, headId): OpenFile(i, OpenFreezerFileForReadOnly)
PreopenFrom(files, data, i, headId) ==
    IF ~(i < headId) THEN [exc |-> "", data |-> data, files |-> files]
    ELSE LET o == OpenFile(files, data, i, "rb")
         IN  IF o.exc # "" THEN o ELSE PreopenFrom(o.files, o.data, i + 1, headId)

\* FreezerTable.Preopen
Preopen(files, data, tailId, headId) ==
    LET ro == PreopenFrom(ReleaseFilesAfter(files, 0), data, tailId, headId)
    IN  IF ro.exc # "" THEN ro ELSE OpenFile(ro.files, ro.data, headId, "a+b")

Abs(x) == IF x < 0 THEN -x ELSE x

-----------------------------------------------------------------------------
(* Repair and the table factory *)

\* NewTable's maxFilesize
MaxFileSize == 2000000000

\* Repair without its loop (not the module's): the index and the head are taken
\* as they are.
RepairLoopSkipped(st) == st

RECURSIVE RepairLoop(_)
\* Repair's loop `while contentExp != contentSize`, on the loop's variables.
\* Ends with exc = "" when index and head agree, or with the exception raised.
RepairLoop(st) ==
    IF ~(st.contentExp # st.contentSize) THEN st
    ELSE IF st.contentExp < st.contentSize
    THEN \* "Truncating dangling head"
         LET t == TruncateFreezerFile(st.data[st.head], st.contentExp)
         IN  IF t.exc # "" THEN [st EXCEPT !.exc = t.exc, !.msg = "TruncateFreezerFile"]
             ELSE RepairLoop([st EXCEPT !.data = [@ EXCEPT ![st.head] = t.content],
                                        !.contentSize = st.contentExp])
    ELSE \* "Truncating dangling indexes"
         LET t == TruncateFreezerFile(st.index, st.offsetsSize - INDEX_ENTRY_SIZE)
         IN  IF t.exc # "" THEN [st EXCEPT !.exc = t.exc, !.msg = "TruncateFreezerFile"]
             ELSE \* self.index.ReadAt: a Python file object has no attribute ReadAt
                  [st EXCEPT !.index = t.content,
                             !.offsetsSize = @ - INDEX_ENTRY_SIZE,
                             !.exc = "AttributeError", !.msg = "ReadAt"]

\* FreezerTable.Repair on the object s, with the disk as (index, data).
\* [exc, msg, index, data, self]: the exception raised ("" when none), the disk
\* afterwards, and the object afterwards.
Repair(s, index, data) ==
    LET size     == Len(index)
        \* size 0: index.write(buffer) puts 6 zero bytes in the file object's
        \* write buffer; os.fstat does not see them until the buffer is flushed
        pending  == IF size = 0 THEN Zeros(INDEX_ENTRY_SIZE) ELSE <<>>
        overflow == size % INDEX_ENTRY_SIZE
        cut      == IF overflow # 0 THEN TruncateFreezerFile(index, size - overflow)
                    ELSE [exc |-> "", content |-> index]
        failed(e, m, i, d) == [exc |-> e, msg |-> m, index |-> i, data |-> d, self |-> s]
    IN
    IF cut.exc # "" THEN failed(cut.exc, "TruncateFreezerFile", index, data)
    ELSE
    LET offsetsSize == Len(cut.content)
        \* index.seek(0) flushes the write buffer to the end of the file
        flushed     == cut.content \o pending
        firstIndex  == UnmarshalBinary(Read(flushed, 0, INDEX_ENTRY_SIZE))
    IN
    \* index.seek(offsetsSize - INDEX_ENTRY_SIZE) with a negative position
    IF offsetsSize - INDEX_ENTRY_SIZE < 0 THEN failed("OSError", "seek", flushed, data)
    ELSE
    LET lastIndex == UnmarshalBinary(Read(flushed, offsetsSize - INDEX_ENTRY_SIZE, INDEX_ENTRY_SIZE))
        o         == OpenFile(s.files, data, lastIndex.filenum, "a+b")
        loop      == RepairLoop([exc |-> "", msg |-> "", index |-> flushed, data |-> o.data,
                                 head |-> lastIndex.filenum, lastIndex |-> lastIndex,
                                 offsetsSize |-> offsetsSize,
                                 contentSize |-> Len(o.data[lastIndex.filenum]),
                                 contentExp |-> lastIndex.offset])
    IN
    IF loop.exc # "" THEN failed(loop.exc, loop.msg, loop.index, loop.data)
    ELSE
    LET headId == loop.lastIndex.filenum
        pre    == Preopen(o.files, loop.data, firstIndex.filenum, headId)
    IN
    IF pre.exc # "" THEN failed(pre.exc, "open", loop.index, pre.data)
    ELSE [exc |-> "", msg |-> "", index |-> loop.index, data |-> pre.data,
          self |-> [s EXCEPT
                      !.tailId     = firstIndex.filenum,
                      !.itemOffset = firstIndex.offset,
                      !.items      = Abs(firstIndex.offset)
                                       + Abs(loop.offsetsSize \div INDEX_ENTRY_SIZE - 1),
                      !.headBytes  = Abs(loop.contentSize),
                      !.headId     = headId,
                      !.files      = pre.files,
                      !.head       = [num |-> headId],
                      !.index      = [pos |-> loop.offsetsSize, closed |-> FALSE]]]

\* No call is executing.
Quiet == \A t \in Threads : pc[t] \in {"idle", "done"}

Closed == self.index = None

\* NewCustomTable(path, name, ..., maxFilesize, noCompression): constructs the
\* object on the index file, repairs it and returns it, or raises what Repair
\* raised (the object is then garbage).  Called when there is no open table.
NewCustomTable ==
    /\ table \in {"absent", "failed"} \/ (table = "published" /\ Closed)
    /\ Quiet
    /\ LET tab == [NoObject EXCEPT
                     !.noCompression = written.noCompression,
                     !.maxFileSize   = MaxFileSize,
                     !.index         = [pos |-> Len(indexFile), closed |-> FALSE]]
           r   == Repair(tab, indexFile, dataFiles)
       IN  /\ indexFile' = r.index
           /\ dataFiles' = r.data
           /\ table' = IF r.exc = "" THEN "published" ELSE "failed"
           /\ openError' = r.exc
           /\ self' = IF r.exc = "" THEN r.self ELSE NoObject
    /\ atOpen' = [index |-> indexFile, data |-> dataFiles]
    /\ lock' = FreeLock
    /\ pc' = [t \in Threads |-> "idle"]
    /\ frame' = [t \in Threads |-> Idle]
    /\ ret' = [t \in Threads |-> NoResult]
    /\ UNCHANGED written

-----------------------------------------------------------------------------
(* Calls on the published table.  A thread starts a call, runs its steps and *)
(* ends with its result in ret.                                             *)

\* item numbers callers ask for: one below the least to one above the greatest
Nums == -1 .. MaxItems + MaxItemOffset + 1

Unavailable == Raised("RuntimeError", "The table or the item is inaccessible")

OutOfBounds == Raised("RuntimeError", "The item number is out of bounds")

OffsetOutOfBounds == Raised("RuntimeError", "The item offset number is out of bounds")

MissingDataFile == Raised("RuntimeError", "missing data file")

\* The first block number the key-value store holds
LevelDBFirst == 2

\* GethLevelDB.GetHeaderHash(num): db.Get raises KeyError for a key not stored
LevelGetHeaderHash(num) ==
    IF num < 0 THEN Raised("OverflowError", "can't convert negative int to unsigned")
    ELSE IF num >= LevelDBFirst THEN Returned(<<255, num>>)
    ELSE Raised("KeyError", "")

\* GethDB.GetHeaderHash(num), given what freezerdb.GetHeaderHash(num) did: only
\* a KeyError is caught and answered from the key-value store.
GethDBGetHeaderHash(num, fromFreezer) ==
    IF fromFreezer.exc = "KeyError"
    THEN LET l == LevelGetHeaderHash(num)
         IN  IF l.exc = "KeyError"
             THEN Raised("KeyError", "Both FreezerDB and LevelDB haven't stored the specified block.")
             ELSE l
    ELSE fromFreezer

\* What the thread's call gives its caller when Retrieve gives r.
Outcome(t, r) ==
    IF frame[t].op = "GetHeaderHash" THEN GethDBGetHeaderHash(frame[t].item, r) ELSE r

\* The call of thread t ends with r.
Finish(t, r) ==
    /\ pc' = [pc EXCEPT ![t] = "done"]
    /\ ret' = [ret EXCEPT ![t] = r]
    /\ frame' = [frame EXCEPT ![t] = [Idle EXCEPT !.op = frame[t].op, !.item = frame[t].item]]

\* Thread t calls table.Retrieve(n), or GethDB.GetHeaderHash(n), which reads the
\* 'hashes' table (the uncompressed one of TABLE_SCHEMA) through Retrieve.
CallRetrieve(t, op, n) ==
    /\ table = "published"
    /\ pc[t] \in {"idle", "done"}
    /\ op = "GetHeaderHash" => self.noCompression
    /\ pc' = [pc EXCEPT ![t] = "rlock"]
    /\ frame' = [frame EXCEPT ![t] = [Idle EXCEPT !.op = op, !.item = n]]
    /\ ret' = [ret EXCEPT ![t] = NoResult]
    /\ UNCHANGED <<disk, table, openError, self, lock, atOpen>>

Passed == Returned(<<>>)

\* Retrieve's checks with the upper range check off by one (not the module's).
PrecheckOffByOne(s, item) ==
    IF s.index = None \/ s.head = None THEN Unavailable
    ELSE IF s.items < item THEN OutOfBounds
    ELSE IF s.itemOffset > item THEN OffsetOutOfBounds
    ELSE Passed

\* Retrieve's checks with the range checked before the handles (not the module's).
PrecheckRangeFirst(s, item) ==
    IF s.items <= item THEN OutOfBounds
    ELSE IF s.itemOffset > item THEN OffsetOutOfBounds
    ELSE IF s.index = None \/ s.head = None THEN Unavailable
    ELSE Passed

\* Retrieve's checks, lines 377-384, on the table s: the error raised, or Passed
Precheck(s, item) ==
    IF s.index = None \/ s.head = None THEN Unavailable
    ELSE IF s.items <= item THEN OutOfBounds
    ELSE IF s.itemOffset > item THEN OffsetOutOfBounds
    ELSE Passed

\* Retrieve, lines 375-386 and GetBounds line 343: takes the read lock, checks
\* the table and the range, and seeks the index to record item + 1.  A raise
\* leaves the `with` block, which gives the lock back.
RetrieveEnter(t) ==
    /\ pc[t] = "rlock"
    /\ lock.writer = {}
    /\ LET item == frame[t].item IN
       IF Precheck(self, item) # Passed
       THEN Finish(t, Outcome(t, Precheck(self, item))) /\ UNCHANGED <<self, lock>>
       ELSE IF self.index.closed
       THEN Finish(t, Outcome(t, Raised("ValueError", "seek of closed file")))
            /\ UNCHANGED <<self, lock>>
       ELSE /\ lock' = [lock EXCEPT !.readers = @ \cup {t}]
            /\ self' = [self EXCEPT !.index.pos = (item - self.itemOffset + 1) * INDEX_ENTRY_SIZE]
            /\ pc' = [pc EXCEPT ![t] = "read_end"]
            /\ UNCHANGED <<frame, ret>>
    /\ UNCHANGED <<disk, table, openError, atOpen>>

\* self.index.read(INDEX_ENTRY_SIZE) at the shared handle's position:
\* the bytes read; the position moves past them.
IndexRead == Read(indexFile, self.index.pos, INDEX_ENTRY_SIZE)

\* GetBounds naming the start record's file on a rotation (not the module's).
GetBoundsStartFile(item, startIdx, endIdx) ==
    IF ~(item # 0) THEN <<0, endIdx.offset, endIdx.filenum>>
    ELSE IF startIdx.filenum # endIdx.filenum THEN <<0, endIdx.offset, startIdx.filenum>>
    ELSE <<startIdx.offset, endIdx.offset, endIdx.filenum>>

\* GetBounds without the file rotation case (not the module's).
GetBoundsIgnoringFile(item, startIdx, endIdx) ==
    IF ~(item # 0) THEN <<0, endIdx.offset, endIdx.filenum>>
    ELSE <<startIdx.offset, endIdx.offset, endIdx.filenum>>

\* GetBounds' result (lines 348-359) from the two records read for `item`
GetBounds(item, startIdx, endIdx) ==
    IF ~(item # 0) THEN <<0, endIdx.offset, endIdx.filenum>>
    ELSE IF startIdx.filenum # endIdx.filenum THEN <<0, endIdx.offset, endIdx.filenum>>
    ELSE <<startIdx.offset, endIdx.offset, endIdx.filenum>>

\* thread t has GetBounds' result b: on to Retrieve line 388
HaveBounds(t, b) ==
    /\ frame' = [frame EXCEPT ![t].startOffset = b[1], ![t].endOffset = b[2],
                              ![t].filenum = b[3], ![t].endIdx = Idle.endIdx]
    /\ pc' = [pc EXCEPT ![t] = "data_seek"]

\* GetBounds lines 344-354: reads the end record; for item 0 that is all
GetBoundsReadEnd(t) ==
    /\ pc[t] = "read_end"
    /\ LET buffer == IndexRead
           endIdx == UnmarshalBinary(buffer)
           item   == frame[t].item - self.itemOffset
       IN  /\ self' = [self EXCEPT !.index.pos = @ + Len(buffer)]
           /\ IF item # 0
              THEN /\ frame' = [frame EXCEPT ![t].endIdx = endIdx]
                   /\ pc' = [pc EXCEPT ![t] = "seek_start"]
              ELSE HaveBounds(t, GetBounds(item, endIdx, endIdx))
    /\ UNCHANGED <<disk, table, openError, lock, ret, atOpen>>

\* GetBounds line 349: index.seek(item * INDEX_ENTRY_SIZE)
GetBoundsSeekStart(t) ==
    /\ pc[t] = "seek_start"
    /\ self' = [self EXCEPT !.index.pos = (frame[t].item - self.itemOffset) * INDEX_ENTRY_SIZE]
    /\ pc' = [pc EXCEPT ![t] = "read_start"]
    /\ UNCHANGED <<disk, table, openError, lock, frame, ret, atOpen>>

\* GetBounds lines 350-359: reads the start record and returns the bounds
GetBoundsReadStart(t) ==
    /\ pc[t] = "read_start"
    /\ LET buffer == IndexRead
       IN  /\ self' = [self EXCEPT !.index.pos = @ + Len(buffer)]
           /\ HaveBounds(t, GetBounds(frame[t].item - self.itemOffset,
                                      UnmarshalBinary(buffer), frame[t].endIdx))
    /\ UNCHANGED <<disk, table, openError, lock, ret, atOpen>>

\* the read lock is given back on leaving the `with` block
ReleaseRead(t) == lock' = [lock EXCEPT !.readers = @ \ {t}]

\* Retrieve lines 388-393 without the seek of line 392 (not the module's): the
\* read starts wherever the handle was left.
RetrieveWithoutSeek(t) ==
    /\ pc[t] = "data_seek"
    /\ IF frame[t].filenum \notin DOMAIN self.files
       THEN Finish(t, Outcome(t, MissingDataFile)) /\ ReleaseRead(t) /\ UNCHANGED self
       ELSE /\ pc' = [pc EXCEPT ![t] = "data_read"]
            /\ UNCHANGED <<self, frame, ret, lock>>
    /\ UNCHANGED <<disk, table, openError, atOpen>>

\* Retrieve lines 388-392: the data file's handle, or "missing data file";
\* dataFile.seek(startOffset)
RetrieveSeek(t) ==
    /\ pc[t] = "data_seek"
    /\ IF frame[t].filenum \notin DOMAIN self.files
       THEN Finish(t, Outcome(t, MissingDataFile)) /\ ReleaseRead(t) /\ UNCHANGED self
       ELSE /\ self' = [self EXCEPT !.files[frame[t].filenum].pos = frame[t].startOffset]
            /\ pc' = [pc EXCEPT ![t] = "data_read"]
            /\ UNCHANGED <<frame, ret, lock>>
    /\ UNCHANGED <<disk, table, openError, atOpen>>

\* Retrieve line 393 dropping the file from the open-file set after the read
\* (not the module's).
RetrieveReadReleasing(t) ==
    /\ pc[t] = "data_read"
    /\ LET num     == frame[t].filenum
           n       == frame[t].endOffset - frame[t].startOffset
           content == dataFiles[num]
           pos     == self.files[num].pos
           blob    == IF n = -1 THEN Read(content, pos, Len(content)) ELSE Read(content, pos, n)
       IN  IF n < -1
           THEN /\ Finish(t, Outcome(t, Raised("ValueError", "read length must be non-negative or -1")))
                /\ UNCHANGED self
           ELSE /\ self' = [self EXCEPT !.files = [m \in DOMAIN @ \ {num} |-> @[m]]]
                /\ frame' = [frame EXCEPT ![t].blob = blob, ![t].startOffset = 0,
                                          ![t].endOffset = 0, ![t].filenum = 0]
                /\ pc' = [pc EXCEPT ![t] = "decompress"]
                /\ UNCHANGED ret
    /\ ReleaseRead(t)
    /\ UNCHANGED <<disk, table, openError, atOpen>>

\* Retrieve line 393 with the read lock kept past the read (not the module's).
RetrieveReadKeepingLock(t) ==
    /\ pc[t] = "data_read"
    /\ LET num     == frame[t].filenum
           n       == frame[t].endOffset - frame[t].startOffset
           content == dataFiles[num]
           pos     == self.files[num].pos
           blob    == IF n = -1 THEN Read(content, pos, Len(content)) ELSE Read(content, pos, n)
       IN  IF n < -1
           THEN /\ Finish(t, Outcome(t, Raised("ValueError", "read length must be non-negative or -1")))
                /\ UNCHANGED self
           ELSE /\ self' = [self EXCEPT !.files[num].pos = @ + Len(blob)]
                /\ frame' = [frame EXCEPT ![t].blob = blob, ![t].startOffset = 0,
                                          ![t].endOffset = 0, ![t].filenum = 0]
                /\ pc' = [pc EXCEPT ![t] = "decompress"]
                /\ UNCHANGED ret
    /\ UNCHANGED <<disk, table, openError, lock, atOpen>>

\* Retrieve line 393: blob = dataFile.read(endOffset - startOffset) at the shared
\* handle's position; read(-1) reads to the end of the file, a length below -1
\* raises ValueError.  Leaves the `with` block.
RetrieveRead(t) ==
    /\ pc[t] = "data_read"
    /\ LET num     == frame[t].filenum
           n       == frame[t].endOffset - frame[t].startOffset
           content == dataFiles[num]
           pos     == self.files[num].pos
           blob    == IF n = -1 THEN Read(content, pos, Len(content)) ELSE Read(content, pos, n)
       IN  IF n < -1
           THEN /\ Finish(t, Outcome(t, Raised("ValueError", "read length must be non-negative or -1")))
                /\ UNCHANGED self
           ELSE /\ self' = [self EXCEPT !.files[num].pos = @ + Len(blob)]
                /\ frame' = [frame EXCEPT ![t].blob = blob, ![t].startOffset = 0,
                                          ![t].endOffset = 0, ![t].filenum = 0]
                /\ pc' = [pc EXCEPT ![t] = "decompress"]
                /\ UNCHANGED ret
    /\ ReleaseRead(t)
    /\ UNCHANGED <<disk, table, openError, atOpen>>

\* Retrieve lines 397-400, outside the lock: the blob as it is, or uncompressed
RetrieveReturn(t) ==
    /\ pc[t] = "decompress"
    /\ LET u == Uncompress(frame[t].blob)
       IN  Finish(t, Outcome(t, IF self.noCompression THEN Returned(frame[t].blob)
                                ELSE IF u.ok THEN Returned(u.out)
                                ELSE Raised("UncompressError", "Error while decompressing")))
    /\ UNCHANGED <<disk, table, openError, self, lock, atOpen>>

\* Thread t calls table.Close()
CallClose(t) ==
    /\ table = "published"
    /\ pc[t] \in {"idle", "done"}
    /\ pc' = [pc EXCEPT ![t] = "wlock"]
    /\ frame' = [frame EXCEPT ![t] = [Idle EXCEPT !.op = "Close"]]
    /\ ret' = [ret EXCEPT ![t] = NoResult]
    /\ UNCHANGED <<disk, table, openError, self, lock, atOpen>>

\* Close line 205: takes the write lock, once no reader and no writer holds it
CloseEnter(t) ==
    /\ pc[t] = "wlock"
    /\ lock.readers = {} /\ lock.writer = {}
    /\ lock' = [lock EXCEPT !.writer = {t}]
    /\ pc' = [pc EXCEPT ![t] = "closing"]
    /\ UNCHANGED <<disk, table, openError, self, frame, ret, atOpen>>

\* Close lines 206-220 under the write lock.  indexFails: index.close() raises;
\* bad: the data files whose close() raises.
CloseBody(t, indexFails, bad) ==
    /\ pc[t] = "closing"
    /\ lock' = [lock EXCEPT !.writer = {}]
    /\ IF self.index = None
       THEN \* None has no attribute close
            Finish(t, Raised("AttributeError", "'NoneType' object has no attribute 'close'"))
            /\ UNCHANGED self
       ELSE IF indexFails /\ ~self.index.closed
       THEN \* the exception leaves the method; the file object is closed all the same
            /\ Finish(t, Raised("OSError", "index close"))
            /\ self' = [self EXCEPT !.index.closed = TRUE]
       ELSE /\ self' = [self EXCEPT !.index = None, !.files = <<>>, !.head = None]
            /\ Finish(t, IF bad # {} THEN Raised("OSError", "data file close")
                         ELSE Returned(<<>>))
    /\ UNCHANGED <<disk, table, openError, atOpen>>

\* Has with the comparison off by one (not the module's).
HasAtMost(s, number) == s.items >= number

\* FreezerTable.Has(number): self.items > number
Has(s, number) == s.items > number

\* Thread t calls table.Has(n): no lock is taken, the call is one read of items
CallHas(t, n) ==
    /\ table = "published"
    /\ pc[t] \in {"idle", "done"}
    /\ pc' = [pc EXCEPT ![t] = "done"]
    /\ frame' = [frame EXCEPT ![t] = [Idle EXCEPT !.op = "Has", !.item = n]]
    /\ ret' = [ret EXCEPT ![t] = Returned(Has(self, n))]
    /\ UNCHANGED <<disk, table, openError, self, lock, atOpen>>

\* FreezerTable.SizeNolock: os.fstat of the index file, and the formula
SizeNolock(s, index) == s.maxFileSize * (s.headId - s.tailId) + s.headBytes + Len(index)

\* Thread t calls table.Size()
CallSize(t) ==
    /\ table = "published"
    /\ pc[t] \in {"idle", "done"}
    /\ pc' = [pc EXCEPT ![t] = "size_rlock"]
    /\ frame' = [frame EXCEPT ![t] = [Idle EXCEPT !.op = "Size"]]
    /\ ret' = [ret EXCEPT ![t] = NoResult]
    /\ UNCHANGED <<disk, table, openError, self, lock, atOpen>>

\* Size line 423: takes the read lock
SizeEnter(t) ==
    /\ pc[t] = "size_rlock"
    /\ lock.writer = {}
    /\ lock' = [lock EXCEPT !.readers = @ \cup {t}]
    /\ pc' = [pc EXCEPT ![t] = "size"]
    /\ UNCHANGED <<disk, table, openError, self, frame, ret, atOpen>>

\* Size line 424 raising past a lock that is not given back (not the module's).
SizeBodyKeepingLock(t) ==
    /\ pc[t] = "size"
    /\ Finish(t, Raised("NameError", "name 't' is not defined"))
    /\ UNCHANGED <<disk, table, openError, self, lock, atOpen>>

\* Size line 424: res = t.SizeNolock().  No name t is bound in the method or the
\* module, so the line raises NameError; leaving the `with` block gives the
\* lock back.
SizeBody(t) ==
    /\ pc[t] = "size"
    /\ Finish(t, Raised("NameError", "name 't' is not defined"))
    /\ ReleaseRead(t)
    /\ UNCHANGED <<disk, table, openError, self, atOpen>>

\* Thread t calls GethDB.AncientBlockCount(), which returns
\* GethFreezerDB.GetBlockCount(), which calls tables['hashes'].GetItemsCount():
\* FreezerTable has no such attribute.
CallGetBlockCount(t) ==
    /\ table = "published"
    /\ pc[t] \in {"idle", "done"}
    /\ self.noCompression
    /\ pc' = [pc EXCEPT ![t] = "done"]
    /\ frame' = [frame EXCEPT ![t] = [Idle EXCEPT !.op = "GetBlockCount"]]
    /\ ret' = [ret EXCEPT ![t] = Raised("AttributeError",
                                        "'FreezerTable' object has no attribute 'GetItemsCount'")]
    /\ UNCHANGED <<disk, table, openError, self, lock, atOpen>>

\* One step of thread t
ThreadStep(t) ==
    \/ \E n \in Nums : CallRetrieve(t, "Retrieve", n)
    \/ RetrieveEnter(t)
    \/ GetBoundsReadEnd(t)
    \/ GetBoundsSeekStart(t)
    \/ GetBoundsReadStart(t)
    \/ RetrieveSeek(t)
    \/ RetrieveRead(t)
    \/ RetrieveReturn(t)
    \/ CallClose(t)
    \/ CloseEnter(t)
    \/ \E indexFails \in BOOLEAN, bad \in SUBSET DOMAIN self.files : CloseBody(t, indexFails, bad)
    \/ \E n \in Nums : CallHas(t, n)
    \/ CallSize(t)
    \/ SizeEnter(t)
    \/ SizeBody(t)

-----------------------------------------------------------------------------
(* Specifications *)

\* One caller: calls follow one another.
Next ==
    \/ NewCustomTable
    \/ ThreadStep(1)
    \/ \E n \in Nums : CallRetrieve(1, "GetHeaderHash", n)
    \/ CallGetBlockCount(1)

Spec == Init /\ [][Next]_vars

\* Concurrent callers, one call each, on a table the writer left in good order.
NextConc ==
    \/ NewCustomTable
    \/ \E t \in Threads : pc[t] # "done" /\ ThreadStep(t)

SpecConc == InitClean /\ [][NextConc]_vars

\* Several callers whose calls follow one another: a call starts only when no
\* other call is executing.  Each caller keeps the result of its last call.
NextTurns ==
    \/ NewCustomTable
    \/ \E t \in Threads : (pc[t] \in {"idle", "done"} => Quiet) /\ ThreadStep(t)

SpecTurns == InitClean /\ [][NextTurns]_vars

\* Concurrent callers that each keep running: the interpreter goes on executing
\* a thread that can take a step, and a lock that is free is granted.
SpecConcFair ==
    SpecConc /\ \A t \in Threads : WF_vars(pc[t] # "done" /\ ThreadStep(t))

-----------------------------------------------------------------------------
(* Properties *)

\* the table is published and its index handle is in place and open
Open == table = "published" /\ self.index # None /\ ~self.index.closed

\* thread t has finished a call of op
DoneCall(t, op) == pc[t] = "done" /\ frame[t].op = op

\* record k (from 0) of an index file's bytes
EntryAt(bytes, k) ==
    UnmarshalBinary(SubSeq(bytes, INDEX_ENTRY_SIZE * k + 1, INDEX_ENTRY_SIZE * k + INDEX_ENTRY_SIZE))

\* the full records of an index file's bytes
Records(bytes) == Len(bytes) \div INDEX_ENTRY_SIZE

LastEntry(bytes) == EntryAt(bytes, Records(bytes) - 1)

\* the length of data file num on a disk (0 for a file that is not there)
FileLen(data, num) == IF num \in DOMAIN data THEN Len(data[num]) ELSE 0

InRange(n) == self.itemOffset <= n /\ n < self.items

\* The stored bytes of table item k (from 0): the range that ends at record
\* k + 1, in that record's file, and starts at record k's offset, or at 0 for
\* the first item and for the first item of a data file.
StoredBytes(k) ==
    LET e0    == EntryAt(indexFile, k)
        e1    == EntryAt(indexFile, k + 1)
        start == IF k = 0 \/ e0.filenum # e1.filenum THEN 0 ELSE e0.offset
    IN  SubSeq(dataFiles[e1.filenum], start + 1, e1.offset)

\* the index of the specification's scenario: (0,0) (0,5) (0,12) (0,20)
ScenarioIndex ==
    <<0, 0, 0, 0, 0, 0,  0, 0, 0, 0, 0, 5,  0, 0, 0, 0, 0, 12,  0, 0, 0, 0, 0, 20>>

\* the scenario's table is the one on disk, undamaged
Scenario == indexFile = ScenarioIndex /\ DOMAIN dataFiles = {0} /\ Len(dataFiles[0]) = 20

\* C1: on an open table, a Retrieve(n) with itemOffset <= n < items (calls
\* following one another) returns the content the writer stored as item n: the
\* stored bytes of the item as they are for an uncompressed table, uncompressed
\* for a compressed one.  In the scenario, Retrieve(0), Retrieve(1) and
\* Retrieve(2) return bytes [0,5), [5,12) and [12,20) of the file.
C1_RetrieveReturnsStoredItem ==
    \A t \in Threads :
      (Open /\ DoneCall(t, "Retrieve") /\ InRange(frame[t].item)) =>
        LET k == frame[t].item - self.itemOffset
        IN  /\ ret[t] = Returned(written.raw[k + 1])
            /\ self.noCompression => ret[t].value = StoredBytes(k)
            /\ ~self.noCompression =>
                 /\ Uncompress(StoredBytes(k)).ok
                 /\ ret[t].value = Uncompress(StoredBytes(k)).out
            /\ Scenario =>
                 /\ k = 0 => ret[t].value = SubSeq(dataFiles[0], 1, 5)
                 /\ k = 1 => ret[t].value = SubSeq(dataFiles[0], 6, 12)
                 /\ k = 2 => ret[t].value = SubSeq(dataFiles[0], 13, 20)

\* C1's case: in the scenario, Retrieve(1) has returned the 7 bytes [5,12).
C1_Witness ==
    /\ Open /\ Scenario
    /\ DoneCall(1, "Retrieve") /\ frame[1].item = 1
    /\ ret[1].exc = "" /\ Len(ret[1].value) = 7
    /\ ret[1].value = SubSeq(dataFiles[0], 6, 12)

IsOutOfRange(r) == r = OutOfBounds \/ r = OffsetOutOfBounds

\* C2: on an open table, Retrieve(n) fails with the out-of-range error exactly
\* when n < itemOffset or n >= items, and succeeds otherwise; so
\* Retrieve(itemOffset - 1) and Retrieve(items) fail out of range, and
\* Retrieve(itemOffset) and Retrieve(items - 1) succeed when items > itemOffset.
C2_RangeChecks ==
    \A t \in Threads :
      (Open /\ DoneCall(t, "Retrieve")) =>
        LET n == frame[t].item
        IN  /\ IsOutOfRange(ret[t]) <=> (n < self.itemOffset \/ n >= self.items)
            /\ InRange(n) => ret[t].exc = ""
            /\ n = self.itemOffset - 1 => ret[t] = OffsetOutOfBounds
            /\ n = self.items => ret[t] = OutOfBounds

\* C2's case: on a pruned table that holds items, Retrieve(itemOffset - 1) has
\* failed out of range.
C2_Witness ==
    /\ Open /\ self.itemOffset > 0 /\ self.items > self.itemOffset
    /\ DoneCall(1, "Retrieve") /\ frame[1].item = self.itemOffset - 1
    /\ IsOutOfRange(ret[1])

\* C3: concurrent Retrieve calls with pairwise different in-range item numbers,
\* in every interleaving of their steps, each succeed and each return the
\* content of their own item.
C3_ConcurrentRetrieves ==
    \A t \in Threads :
      ( /\ Open /\ DoneCall(t, "Retrieve") /\ InRange(frame[t].item)
        /\ \A u \in Threads \ {t} :
             frame[u].op \in {"", "Retrieve"}
             /\ (frame[u].op = "Retrieve" =>
                   InRange(frame[u].item) /\ frame[u].item # frame[t].item) )
      => ret[t] = Returned(written.raw[frame[t].item - self.itemOffset + 1])

\* Close has returned, or raised what closing a data file raised
ClosedBy(t) ==
    DoneCall(t, "Close") /\ (ret[t].exc = "" \/ ret[t] = Raised("OSError", "data file close"))

\* C4: once Close has completed, with or without a data file's close error, the
\* index handle and the head handle are absent and the open-file set is empty,
\* and a Retrieve(n) after it, whatever n, fails with the unavailable error.
C4_ClosedIsUnavailable ==
    \A t \in Threads :
      /\ ClosedBy(t) => (self.index = None /\ self.head = None /\ DOMAIN self.files = {})
      /\ (table = "published" /\ Closed /\ DoneCall(t, "Retrieve")) => ret[t] = Unavailable

\* C4's case: after Close, a Retrieve of a number at or above items has failed
\* with the unavailable error.
C4_Witness ==
    /\ table = "published" /\ Closed /\ DOMAIN self.files = {}
    /\ DoneCall(1, "Retrieve") /\ frame[1].item >= self.items
    /\ ret[1] = Unavailable

\* C5: when the table does not cover a block number num >= items (Retrieve
\* fails out of range), GethDB.GetHeaderHash(num) answers from the key-value
\* store: it returns what the store holds for num, and raises KeyError only when
\* the store does not hold it either.
C5_FallsBackToLevelDB ==
    \A t \in Threads :
      (Open /\ DoneCall(t, "GetHeaderHash") /\ frame[t].item >= self.items) =>
        LET l == LevelGetHeaderHash(frame[t].item)
        IN  ret[t] = IF l.exc = "KeyError"
                     THEN Raised("KeyError", "Both FreezerDB and LevelDB haven't stored the specified block.")
                     ELSE l

\* NewCustomTable has run, on the disk atOpen
Opened == table \in {"published", "failed"}

\* C6: an index file of 6*k + r bytes at open, k >= 1 and 0 < r < 6, whose k-th
\* record's offset is not beyond the length of the data file it names: Repair
\* completes and the index file is then its first 6*k bytes.
C6_TornIndexRepaired ==
    LET k == Len(atOpen.index) \div INDEX_ENTRY_SIZE
        r == Len(atOpen.index) % INDEX_ENTRY_SIZE
    IN  ( /\ Opened /\ k >= 1 /\ r > 0
          /\ EntryAt(atOpen.index, k - 1).offset
               <= FileLen(atOpen.data, EntryAt(atOpen.index, k - 1).filenum) )
        => /\ table = "published"
           /\ indexFile = SubSeq(atOpen.index, 1, INDEX_ENTRY_SIZE * k)

\* the index at open is whole records, at least one
WholeIndexAtOpen ==
    Opened /\ Len(atOpen.index) % INDEX_ENTRY_SIZE = 0 /\ Len(atOpen.index) >= INDEX_ENTRY_SIZE

\* C7: a head data file longer at open than the last index record's offset:
\* Repair completes, the head file is then as long as that offset, no index
\* record is dropped, and headBytes is that offset.
C7_DanglingHeadTruncated ==
    LET e == LastEntry(atOpen.index)
    IN  (WholeIndexAtOpen /\ FileLen(atOpen.data, e.filenum) > e.offset)
        => /\ table = "published"
           /\ Len(dataFiles[e.filenum]) = e.offset
           /\ indexFile = atOpen.index
           /\ self.headBytes = e.offset

\* C8: a last index record at open whose offset is beyond the length of the
\* head data file: Repair completes by dropping trailing index records, the head
\* following the last record's file number, and the last surviving record's
\* offset is then the length of the head file it names.
C8_DanglingIndexDropped ==
    LET e == LastEntry(atOpen.index)
    IN  (WholeIndexAtOpen /\ e.offset > FileLen(atOpen.data, e.filenum))
        => /\ table = "published"
           /\ Len(indexFile) >= INDEX_ENTRY_SIZE /\ Len(indexFile) < Len(atOpen.index)
           /\ indexFile = SubSeq(atOpen.index, 1, Len(indexFile))
           /\ LastEntry(indexFile).offset = FileLen(dataFiles, LastEntry(indexFile).filenum)
           /\ self.head = [num |-> LastEntry(indexFile).filenum]
           /\ \A num \in DOMAIN self.files : num <= LastEntry(indexFile).filenum

\* C9: in the state a successful open returns, the last index record's offset
\* is the length of the head data file and is headBytes, and headId is the last
\* index record's file number.
C9_IndexAndHeadAgree ==
    table = "published" =>
      LET e == LastEntry(indexFile)
      IN  /\ Len(indexFile) % INDEX_ENTRY_SIZE = 0 /\ Len(indexFile) >= INDEX_ENTRY_SIZE
          /\ e.filenum \in DOMAIN dataFiles
          /\ e.offset = Len(dataFiles[e.filenum])
          /\ e.offset = self.headBytes
          /\ self.headId = e.filenum

\* C9's case: a table of more than one data file has just been opened.
C9_Witness ==
    /\ table = "published" /\ Open /\ \A t \in Threads : pc[t] = "idle"
    /\ self.headId > self.tailId /\ self.headBytes > 0
    /\ LastEntry(indexFile) = [filenum |-> self.headId, offset |-> self.headBytes]
    /\ Len(dataFiles[self.headId]) = self.headBytes

\* C10: after a successful Repair, items = itemOffset + (index length / 6 - 1),
\* itemOffset and tailId being the first record's offset and file number; and
\* the scenario's table with its index cut to 19 bytes opens with an index of
\* 18 bytes and 2 items.
C10_ItemsAfterRepair ==
    /\ table = "published" =>
         /\ self.items = self.itemOffset + (Len(indexFile) \div INDEX_ENTRY_SIZE - 1)
         /\ self.itemOffset = EntryAt(indexFile, 0).offset
         /\ self.tailId = EntryAt(indexFile, 0).filenum
    /\ (Opened /\ atOpen.index = SubSeq(ScenarioIndex, 1, 19) /\ FileLen(atOpen.data, 0) = 20)
         => (table = "published" /\ Len(indexFile) = 18 /\ self.items = 2)

\* C11: opening a table whose index file is empty succeeds: the index file is
\* then the one sentinel record (0, 0), 6 bytes, and items = 0, itemOffset = 0,
\* tailId = headId = 0.
C11_EmptyIndexOpens ==
    (Opened /\ atOpen.index = <<>>) =>
      /\ table = "published"
      /\ indexFile = Zeros(INDEX_ENTRY_SIZE)
      /\ self.items = 0 /\ self.itemOffset = 0
      /\ self.tailId = 0 /\ self.headId = 0
      /\ Records(indexFile) = self.items + 1

\* C12: a Close on an open table that ends with a close error has attempted
\* every handle: the index handle is closed and dropped, no data-file handle is
\* left in the open-file set, and head is dropped.
C12_CloseAttemptsEveryHandle ==
    \A t \in Threads :
      (DoneCall(t, "Close") /\ ret[t].exc = "OSError") =>
        /\ self.index = None
        /\ DOMAIN self.files = {}
        /\ self.head = None

\* C13: on an open table, Size() returns
\* maxFileSize * (headId - tailId) + headBytes + the index file's size, the
\* value of SizeNolock(), and holds no lock afterwards.
C13_SizeIsSizeNolock ==
    \A t \in Threads :
      (Open /\ DoneCall(t, "Size")) =>
        /\ ret[t].exc = ""
        /\ ret[t].value = SizeNolock(self, indexFile)
        /\ ret[t].value = MaxFileSize * (self.headId - self.tailId) + self.headBytes + Len(indexFile)
        /\ t \notin lock.readers

\* C14: Has(n) returns true exactly when n < items, and takes no lock: the
\* caller holds neither side of the table lock when Has has returned.
C14_HasIsBelowItems ==
    \A t \in Threads :
      (table = "published" /\ DoneCall(t, "Has")) =>
        /\ ret[t].exc = ""
        /\ ret[t].value <=> (frame[t].item < self.items)
        /\ t \notin lock.readers /\ t \notin lock.writer

\* C14's case: Has(items - 1) has returned true and Has is answered while
\* another caller holds the write lock inside Close.
C14_Witness ==
    \E t, u \in Threads :
      /\ table = "published" /\ self.items > 0
      /\ DoneCall(t, "Has") /\ frame[t].item = self.items - 1 /\ ret[t].value = TRUE
      /\ pc[u] = "closing" /\ lock.writer = {u}

\* C15: on an open table, Has(n) is true if and only if Retrieve(n) does not
\* fail with the out-of-range error, for every n >= 0, pruned tables included.
C15_HasAgreesWithRetrieve ==
    \A t, u \in Threads :
      ( /\ Open /\ DoneCall(t, "Has") /\ DoneCall(u, "Retrieve")
        /\ frame[t].item = frame[u].item /\ frame[t].item >= 0 )
      => (ret[t].value <=> ~IsOutOfRange(ret[u]))

\* C16: on a table that stays open, two Retrieve(i) calls for the same in-range
\* i, with any Retrieve, Has and Size calls executed between them, return the
\* same bytes.
C16_RetrieveIsIdempotent ==
    \A t, u \in Threads :
      ( /\ Open /\ DoneCall(t, "Retrieve") /\ DoneCall(u, "Retrieve")
        /\ frame[t].item = frame[u].item /\ InRange(frame[t].item) )
      => (ret[t].exc = "" /\ ret[t] = ret[u])

\* C16's case: two callers have each retrieved the same item of a table of two
\* data files and hold the same non-empty bytes.
C16_Witness ==
    /\ Open /\ self.headId > self.tailId
    /\ DoneCall(1, "Retrieve") /\ DoneCall(2, "Retrieve")
    /\ frame[1].item = frame[2].item /\ InRange(frame[1].item)
    /\ ret[1].exc = "" /\ Len(ret[1].value) > 0 /\ ret[1] = ret[2]

\* C17: GethDB.AncientBlockCount(), through GethFreezerDB.GetBlockCount(),
\* returns the items count of the opened 'hashes' table.
C17_BlockCountIsItems ==
    \A t \in Threads :
      (Open /\ DoneCall(t, "GetBlockCount")) =>
        (ret[t].exc = "" /\ ret[t].value = self.items)

\* thread t holds the result of GetBounds and has not yet used it
AtBounds(t) == Open /\ pc[t] = "data_seek"

\* C18: GetBounds(item), item relative to the table, returns (start, end, file)
\* with end and file the offset and file number of index record item + 1, and
\* start 0 when item = 0 or records item and item + 1 name different files, and
\* the offset of record item otherwise.
C18_GetBoundsResult ==
    \A t \in Threads :
      AtBounds(t) =>
        LET item == frame[t].item - self.itemOffset
            e0   == EntryAt(indexFile, item)
            e1   == EntryAt(indexFile, item + 1)
        IN  /\ frame[t].endOffset = e1.offset
            /\ frame[t].filenum = e1.filenum
            /\ (item = 0 \/ e0.filenum # e1.filenum) => frame[t].startOffset = 0
            /\ (item # 0 /\ e0.filenum = e1.filenum) => frame[t].startOffset = e0.offset

\* C18's case: GetBounds has returned start 0 for an item other than the first,
\* the first item of the second data file.
C18_Witness ==
    /\ AtBounds(1) /\ frame[1].item - self.itemOffset # 0
    /\ EntryAt(indexFile, frame[1].item - self.itemOffset).offset > 0
    /\ frame[1].startOffset = 0 /\ frame[1].endOffset > 0
    /\ frame[1].filenum = self.headId /\ self.headId > self.tailId

\* C19: while a table is open, from the open on and through every Retrieve of
\* every caller, the open-file set holds a handle for exactly the file numbers
\* tailId .. headId, read-only below headId and for append at headId, and head
\* is the headId handle; and a Retrieve of an in-range item does not fail with
\* the missing-data-file error.
C19_PreopenedFiles ==
    Open =>
      /\ DOMAIN self.files = self.tailId .. self.headId
      /\ \A num \in DOMAIN self.files :
           self.files[num].mode = IF num = self.headId THEN "a+b" ELSE "rb"
      /\ self.head = [num |-> self.headId]
      /\ \A t \in Threads :
           (DoneCall(t, "Retrieve") /\ InRange(frame[t].item)) => ret[t] # MissingDataFile

\* C20: Close excludes Retrieve: never are the write lock and a read lock held
\* together, a Retrieve holding the read lock finds the index handle in place and
\* open and the open-file set as the open left it, and a Retrieve of an in-range
\* item running alongside a Close returns the item's content or fails with the
\* unavailable error.
C20_CloseExcludesRetrieve ==
    /\ ~(lock.writer # {} /\ lock.readers # {})
    /\ \A t \in { r \in lock.readers : frame[r].op = "Retrieve" } :
         /\ self.index # None /\ ~self.index.closed /\ self.head # None
         /\ DOMAIN self.files = self.tailId .. self.headId
    /\ \A t, u \in Threads :
         ( /\ table = "published" /\ DoneCall(t, "Retrieve") /\ InRange(frame[t].item)
           /\ frame[u].op = "Close" )
         => \/ ret[t] = Returned(written.raw[frame[t].item - self.itemOffset + 1])
            \/ ret[t] = Unavailable

\* the steps of Retrieve between taking the read lock and giving it back
InRetrieveLock(t) == pc[t] \in {"read_end", "seek_start", "read_start", "data_seek", "data_read"}

\* C21: Retrieve holds the read lock across the index lookup and the data read
\* and no longer: a caller at the decompression holds no lock, and a caller
\* inside the lookup or the read holds the read lock.
C21_LockNotHeldWhileDecompressing ==
    \A t \in Threads :
      /\ pc[t] = "decompress" => (t \notin lock.readers /\ t \notin lock.writer)
      /\ InRetrieveLock(t) => t \in lock.readers

\* C21's case: on a compressed table, one caller's Close holds the write lock
\* while another caller's Retrieve is at the decompression of the blob it read.
C21_Witness ==
    \E t, u \in Threads :
      /\ Open /\ ~self.noCompression
      /\ pc[t] = "decompress" /\ Len(frame[t].blob) > 0
      /\ pc[u] = "closing" /\ lock.writer = {u} /\ lock.readers = {}

\* thread t holds one side of the table lock
HoldsLock(t) == t \in lock.readers \/ t \in lock.writer

\* thread t waits for the table lock
WaitsForLock(t) == pc[t] \in {"rlock", "wlock", "size_rlock"}

\* C22: a caller that has left Retrieve, Size or Close, by a return or by any
\* error, holds no lock, so with no call running the lock is free; and every
\* caller that waits for the lock comes to the end of its call.
C22_LockAlwaysReleased ==
    /\ [](\A t \in Threads : pc[t] \in {"idle", "done"} => ~HoldsLock(t))
    /\ [](Quiet => lock = FreeLock)
    /\ \A t \in Threads : WaitsForLock(t) ~> pc[t] = "done"

\* C22's case: a Close has ended with a data file's close error, a Retrieve
\* that took the lock after it has ended with the unavailable error, and the
\* lock is free.
C22_Witness ==
    \E t, u \in Threads :
      /\ DoneCall(t, "Close") /\ ret[t] = Raised("OSError", "data file close")
      /\ DoneCall(u, "Retrieve") /\ ret[u] = Unavailable
      /\ lock = FreeLock

\* the operations that only read the table
Readers == {"Retrieve", "GetHeaderHash", "Has", "Size"}

\* this step is a step of a Retrieve (GetBounds included), Has or Size call
ReaderStep ==
    \E t \in Threads : pc'[t] # pc[t] /\ frame'[t].op \in Readers

\* the handles of the open-file set: which files are open, and how
Handles(s) == [num \in DOMAIN s.files |-> s.files[num].mode]

\* C23: a step of Retrieve (GetBounds included), Has or Size, succeeding or
\* failing, leaves items, itemOffset, tailId, headId, headBytes, the index
\* handle and the head handle (in place, and open or closed as they were), the
\* open-file set, and the index and data files as they are.  (The position
\* inside a handle is moved by the seeks and reads.)
C23_ReadsLeaveTableAlone ==
    [][ReaderStep =>
          /\ disk' = disk
          /\ self'.items = self.items /\ self'.itemOffset = self.itemOffset
          /\ self'.tailId = self.tailId /\ self'.headId = self.headId
          /\ self'.headBytes = self.headBytes
          /\ self'.head = self.head
          /\ (self'.index = None) = (self.index = None)
          /\ self.index # None => self'.index.closed = self.index.closed
          /\ Handles(self') = Handles(self)
          /\ self'.noCompression = self.noCompression
          /\ self'.maxFileSize = self.maxFileSize]_vars

\* C23's case: on an open table a Retrieve has failed out of range, and the
\* table and the files are as the open left them.
C23_Witness ==
    /\ Open /\ DoneCall(1, "Retrieve") /\ ret[1] = OutOfBounds
    /\ self.items > self.itemOffset
    /\ indexFile = atOpen.index /\ dataFiles = atOpen.data
    /\ DOMAIN self.files = self.tailId .. self.headId
    /\ self.head = [num |-> self.headId]

\* C24: Repair's loop ends for every index file and data files it is given:
\* the open either returns, the last index record's offset then being the
\* length of the head file, or raises; and a loop that finds the last record and
\* the head file in disagreement ends at once, by raising.
C24_RepairTerminates ==
    Opened =>
      /\ \/ /\ table = "published" /\ openError = ""
            /\ LastEntry(indexFile).offset = FileLen(dataFiles, LastEntry(indexFile).filenum)
         \/ /\ table = "failed" /\ openError \in {"NameError", "AttributeError", "OSError"}
      /\ ( /\ WholeIndexAtOpen
           /\ LastEntry(atOpen.index).offset
                # FileLen(atOpen.data, LastEntry(atOpen.index).filenum) )
         => (table = "failed" /\ openError = "NameError")

\* C24's case: the open found a whole index whose last record disagrees with
\* the head file, entered the loop, and the loop ended by raising.
C24_Witness ==
    /\ WholeIndexAtOpen
    /\ LastEntry(atOpen.index).offset > FileLen(atOpen.data, LastEntry(atOpen.index).filenum)
    /\ Records(atOpen.index) > 2
    /\ table = "failed" /\ openError = "NameError"

\* the index at open is one record, a sentinel with a non-zero item offset, and
\* the data file it names is empty: a pruned table that holds no item
PrunedEmptyAtOpen ==
    /\ Opened /\ Len(atOpen.index) = INDEX_ENTRY_SIZE
    /\ EntryAt(atOpen.index, 0).offset > 0
    /\ FileLen(atOpen.data, EntryAt(atOpen.index, 0).filenum) = 0

\* C25: an open that succeeds leaves at least one full index record, the first
\* record as it was, and items >= itemOffset; and the open of a pruned table
\* whose only record is its sentinel succeeds.
C25_SentinelKept ==
    /\ table = "published" =>
         /\ Records(indexFile) >= 1
         /\ EntryAt(indexFile, 0) = EntryAt(atOpen.index, 0)
         /\ self.items >= self.itemOffset
    /\ PrunedEmptyAtOpen => table = "published"

\* C26: a Close on a table that is already closed raises no error and leaves
\* the closed state as it is: no Close ends with the error of calling close()
\* on an absent index handle, and after a Close on a closed table index and head
\* are absent and the open-file set is empty.
C26_CloseTwice ==
    \A t \in Threads :
      (table = "published" /\ Closed /\ DoneCall(t, "Close")) =>
        /\ ret[t].exc # "AttributeError"
        /\ self.head = None /\ DOMAIN self.files = {}

=============================================================================
